---------------------------- MODULE Spec2Model ----------------------------
(***************************************************************************)
(* Model of src/compressor.py: class XIPCompressor, a byte-pair            *)
(* substitution compressor.  The object keeps two fields, __lookup_table   *)
(* (an insertion-ordered dict from a one-byte code to a two-byte pair) and *)
(* __raw_file_data.  compress_binary runs a greedy loop: count adjacent    *)
(* pairs, draw a random unused byte, substitute the most frequent pair.    *)
(* decompress_binary parses the trailer table and expands every payload    *)
(* byte recursively.                                                       *)
(*                                                                         *)
(* The octet space 0..255 is scaled to 0..OctetSpace-1; every place where  *)
(* the source writes 256 (line 47) or relies on a one-byte field           *)
(* (int.to_bytes() at line 182, data[0] at line 114) uses OctetSpace.      *)
(***************************************************************************)
EXTENDS Integers, Sequences, FiniteSets

\* ------------------------------------------------------------------ bounds
\* Number of octet values (256 in the source, line 47).
OctetSpace == 3
\* Longest input handed to compress_binary.
MaxLen == 3
\* Longest byte string handed to decompress_binary in SpecDecode.
MaxArtLen == 6

Octets == 0 .. (OctetSpace - 1)

\* The interpreter's recursion limit (1000 by default) exceeds the deepest
\* acyclic table (256 keys); the scaled limit keeps that relation.
RecursionLimit == OctetSpace + 2

SeqsUpTo(S, n) == UNION {[1 .. k -> S] : k \in 0 .. n}
Inputs == SeqsUpTo(Octets, MaxLen)
Artifacts == SeqsUpTo(Octets, MaxArtLen)

Elems(s) == {s[i] : i \in 1 .. Len(s)}
Min(S) == CHOOSE x \in S : \A y \in S : x <= y

\* ------------------------------------------------------- dict (ordered map)
\* A Python dict as the sequence of its items <<key, value>> in insertion order.
Keys(d) == {d[i][1] : i \in 1 .. Len(d)}
DictGet(d, k) == (CHOOSE i \in 1 .. Len(d) : d[i][1] = k)
\* d[k] = v: a new key is appended, an existing key keeps its position.
DictSet(d, k, v) ==
    IF k \in Keys(d)
    THEN [i \in 1 .. Len(d) |-> IF d[i][1] = k THEN <<k, v>> ELSE d[i]]
    ELSE Append(d, <<k, v>>)

\* ------------------------------------------------------- pair frequencies
\* Lines 150-163: the pair-frequency dict of the first n bytes of buf, built
\* by one left-to-right pass over the overlapping adjacent pairs.
RECURSIVE CountPairs(_, _, _, _)
CountPairs(buf, n, i, pairs) ==
    IF i > n - 1 THEN pairs
    ELSE LET pair == <<buf[i], buf[i + 1]>>
         IN  CountPairs(buf, n, i + 1,
                 IF pair \in Keys(pairs)
                 THEN DictSet(pairs, pair, pairs[DictGet(pairs, pair)][2] + 1)
                 ELSE DictSet(pairs, pair, 1))

\* The pass with "pairs[pair] += 1" lost: a repeated pair is set to 1 again.
RECURSIVE CountPairsNoIncrement(_, _, _, _)
CountPairsNoIncrement(buf, n, i, pairs) ==
    IF i > n - 1 THEN pairs
    ELSE CountPairsNoIncrement(buf, n, i + 1,
             DictSet(pairs, <<buf[i], buf[i + 1]>>, 1))

PairFrequenciesNoIncrement(buf, n) == CountPairsNoIncrement(buf, n, 1, <<>>)

PairFrequencies(buf, n) == CountPairs(buf, n, 1, <<>>)

\* Lines 95-102: scan the dict in insertion order, a pair with freq >= max_freq
\* replaces the current one.  found = FALSE is the unbound local max_pair.
RECURSIVE MaxPairScan(_, _, _)
MaxPairScan(data, i, acc) ==
    IF i > Len(data) THEN acc
    ELSE MaxPairScan(data, i + 1,
             IF data[i][2] >= acc.freq
             THEN [found |-> TRUE, pair |-> data[i][1], freq |-> data[i][2]]
             ELSE acc)

MaxPair(data) == MaxPairScan(data, 1, [found |-> FALSE, pair |-> <<>>, freq |-> 0])

\* Lines 177-179: bytes.replace, every non-overlapping occurrence from the left.
RECURSIVE Replace(_, _, _)
Replace(buf, pair, code) ==
    IF Len(buf) < 2 THEN buf
    ELSE IF buf[1] = pair[1] /\ buf[2] = pair[2]
         THEN <<code>> \o Replace(SubSeq(buf, 3, Len(buf)), pair, code)
         ELSE <<buf[1]>> \o Replace(Tail(buf), pair, code)

\* ------------------------------------------------------------- allocator
\* Lines 45-50: the explicit raise.
TableFull(table, raw) == Len(table) = OctetSpace - Cardinality(Elems(raw))

\* The test "or replacement in self.__raw_file_data" lost.
FreeCodesKeysOnly(table, raw) == Octets \ Keys(table)

\* Lines 52-60: a drawn byte is returned when it is neither a key nor in the
\* raw data; any such byte can be the one returned.
FreeCodes(table, raw) == Octets \ (Keys(table) \cup Elems(raw))

\* Lines 54-58: a rejected draw recurses; with at least one rejectable byte a
\* run of rejected draws can pass the interpreter's recursion limit, and with
\* no free byte it must.  RecursionError is an Exception (caught at line 167).
CanOverflow(table, raw) == (Keys(table) \cup Elems(raw)) # {}

\* ------------------------------------------------------------- serialize
RECURSIVE Flatten(_)
Flatten(table) ==
    IF table = <<>> THEN <<>>
    ELSE <<table[1][1]>> \o table[1][2] \o Flatten(Tail(table))

\* Line 182: int.to_bytes() of a count that does not fit one byte raises.
CountFits(table) == Len(table) < OctetSpace

\* Lines 182-189.
Serialize(table, buf) == <<Len(table)>> \o buf \o Flatten(table)

\* --------------------------------------------------------------- decoder
\* Line 115: data[(-3 * byte_len):]; a negative start before the beginning is
\* clamped, and -0 is 0, so both give the whole of data.
TableChunk(data, byte_len) ==
    IF byte_len = 0 \/ 3 * byte_len >= Len(data) THEN data
    ELSE SubSeq(data, Len(data) - 3 * byte_len + 1, Len(data))

RECURSIVE ReadEntries(_, _, _, _)
ReadEntries(chunk, byte_len, i, table) ==
    IF i > byte_len THEN [ok |-> TRUE, table |-> table]
    ELSE IF 3 * i > Len(chunk) THEN [ok |-> FALSE, table |-> <<>>]
    ELSE ReadEntries(chunk, byte_len, i + 1,
             DictSet(table, chunk[3 * i - 2], <<chunk[3 * i - 1], chunk[3 * i]>>))

\* Lines 114-124; ok = FALSE is the IndexError of data[0] or table_chunk[i + k].
ReconstructDict(data) ==
    IF data = <<>> THEN [ok |-> FALSE, table |-> <<>>]
    ELSE ReadEntries(TableChunk(data, data[1]), data[1], 1, <<>>)

\* Lines 76-82; ok = FALSE is the RecursionError of a chain longer than the
\* interpreter allows.
RECURSIVE GetOriginal(_, _, _)
GetOriginal(b, table, depth) ==
    IF depth > RecursionLimit THEN [ok |-> FALSE, val |-> <<>>]
    ELSE IF b \in Keys(table)
    THEN LET v  == table[DictGet(table, b)][2]
             b1 == GetOriginal(v[1], table, depth + 1)
         IN  IF ~b1.ok THEN b1
             ELSE LET b2 == GetOriginal(v[2], table, depth + 1)
                  IN  IF ~b2.ok THEN b2
                      ELSE [ok |-> TRUE, val |-> b1.val \o b2.val]
    ELSE [ok |-> TRUE, val |-> <<b>>]

\* Lines 210-213: for i in range(1, data_len), 0-based.
RECURSIVE ExpandAll(_, _, _, _)
ExpandAll(bytes, table, i, last) ==
    IF i > last THEN [ok |-> TRUE, val |-> <<>>]
    ELSE LET h == GetOriginal(bytes[i], table, 1)
         IN  IF ~h.ok THEN h
             ELSE LET t == ExpandAll(bytes, table, i + 1, last)
                  IN  IF ~t.ok THEN t
                      ELSE [ok |-> TRUE, val |-> h.val \o t.val]

\* Lines 203-215: the outcome of decompress_binary on compressed_bytes.
Decompress(bytes) ==
    LET rd == ReconstructDict(bytes)
    IN  IF ~rd.ok THEN [outcome |-> "IndexError", val |-> <<>>]
        ELSE LET n == Len(bytes) - Len(rd.table) * 3
                 r == ExpandAll(bytes, rd.table, 2, n)
             IN  IF r.ok THEN [outcome |-> "ok", val |-> r.val]
                 ELSE [outcome |-> "RecursionError", val |-> <<>>]

\* ----------------------------------------------------------------- state
VARIABLES
    lookup_table,         \* self.__lookup_table
    raw_file_data,        \* self.__raw_file_data (<<>> stands for None, never read before it is set)
    pc,                   \* "idle" | "loop" (line 149) | "return" (line 182)
    compressed_data,      \* local of compress_binary
    data_len,             \* local of compress_binary
    last_pair_frequency,  \* local of compress_binary
    outcome,              \* how the last compress_binary call ended
    compressed_output,    \* its return value
    dec_outcome,          \* how decompress_binary of that value ended
    decompressed_data,    \* its return value
    life,                 \* history: "new" | "first" | "repeat", the calls the object has served
    alloc_log,            \* history: codes returned by __get_replacement in this call
    freqs,                \* history: frequency selected in each iteration of this call
    last_iter,            \* history: buffer before and after, and table after, the last completed iteration
    stop,                 \* history: why the loop of this call ended
    ref_output            \* history: artifact of the previous call when it had the same input

vars == <<lookup_table, raw_file_data, pc, compressed_data, data_len,
          last_pair_frequency, outcome, compressed_output, dec_outcome,
          decompressed_data, life, alloc_log, freqs, last_iter, stop, ref_output>>

\* Lines 26-29: the state __init__ leaves.
Init ==
    /\ lookup_table = <<>>
    /\ raw_file_data = <<>>
    /\ pc = "idle"
    /\ compressed_data = <<>>
    /\ data_len = 0
    /\ last_pair_frequency = 0
    /\ outcome = "none"
    /\ compressed_output = <<>>
    /\ dec_outcome = "none"
    /\ decompressed_data = <<>>
    /\ life = "new"
    /\ alloc_log = <<>>
    /\ freqs = <<>>
    /\ last_iter = [before |-> <<>>, after |-> <<>>, table |-> <<>>]
    /\ stop = "none"
    /\ ref_output = <<>>

\* Every allocation of the call took the smallest free byte and no run of
\* draws overflowed: the call is one a smallest-unused allocator makes.
Ascending ==
    /\ stop # "recursion"
    /\ \A i \in 1 .. Len(alloc_log) :
           alloc_log[i].code = Min(Octets \ (alloc_log[i].keys \cup Elems(raw_file_data)))

\* Lines 20-29: XIPCompressor() returns the one instance and runs __init__ on it.
New ==
    /\ pc = "idle"
    /\ life # "new"
    /\ lookup_table' = <<>>
    /\ raw_file_data' = <<>>
    /\ pc' = "idle"
    /\ compressed_data' = <<>>
    /\ data_len' = 0
    /\ last_pair_frequency' = 0
    /\ outcome' = "none"
    /\ compressed_output' = <<>>
    /\ dec_outcome' = "none"
    /\ decompressed_data' = <<>>
    /\ life' = "new"
    /\ alloc_log' = <<>>
    /\ freqs' = <<>>
    /\ last_iter' = [before |-> <<>>, after |-> <<>>, table |-> <<>>]
    /\ stop' = "none"
    /\ ref_output' = <<>>

\* Lines 140-147: the call starts; __lookup_table is not touched.  The object
\* is followed through its first call and one more call on the same instance.
CompressBinary(X) ==
    /\ pc = "idle"
    /\ life # "repeat"
    /\ raw_file_data' = X
    /\ data_len' = Len(X)
    /\ last_pair_frequency' = 0
    /\ compressed_data' = X
    /\ pc' = "loop"
    /\ outcome' = "none"
    /\ compressed_output' = <<>>
    /\ dec_outcome' = "none"
    /\ decompressed_data' = <<>>
    /\ life' = IF life = "new" THEN "first" ELSE "repeat"
    /\ alloc_log' = <<>>
    /\ freqs' = <<>>
    /\ last_iter' = [before |-> X, after |-> X, table |-> lookup_table]
    /\ stop' = "none"
    /\ ref_output' = IF life = "first" /\ outcome = "ok" /\ X = raw_file_data /\ Ascending
                     THEN compressed_output ELSE <<>>
    /\ UNCHANGED lookup_table

\* Lines 165-169: __get_replacement raised; the loop is left by break.
AllocFails ==
    /\ \/ /\ TableFull(lookup_table, raw_file_data)
          /\ stop' = "exhausted"
       \/ /\ ~TableFull(lookup_table, raw_file_data)
          /\ CanOverflow(lookup_table, raw_file_data)
          /\ stop' = "recursion"
    /\ pc' = "return"
    /\ UNCHANGED <<lookup_table, raw_file_data, compressed_data, data_len,
                   last_pair_frequency, outcome, compressed_output, dec_outcome,
                   decompressed_data, life, alloc_log, freqs, last_iter, ref_output>>

\* Lines 166, 171-180: a code was returned; select, record and substitute.
Substitute(replacement) ==
    LET pairs == PairFrequencies(compressed_data, data_len)
        sel == MaxPair(pairs)
    IN  /\ ~TableFull(lookup_table, raw_file_data)
        /\ replacement \in FreeCodes(lookup_table, raw_file_data)
        /\ alloc_log' = Append(alloc_log,
                            [code |-> replacement, keys |-> Keys(lookup_table)])
        /\ IF ~sel.found
           THEN \* line 102: UnboundLocalError leaves compress_binary
                /\ pc' = "idle"
                /\ outcome' = "UnboundLocalError"
                /\ UNCHANGED <<lookup_table, compressed_data, data_len,
                               last_pair_frequency, freqs, last_iter>>
           ELSE /\ lookup_table' = DictSet(lookup_table, replacement, sel.pair)
                /\ compressed_data' = Replace(compressed_data, sel.pair, replacement)
                /\ data_len' = Len(compressed_data')
                /\ last_pair_frequency' = sel.freq
                /\ freqs' = Append(freqs, sel.freq)
                /\ last_iter' = [before |-> compressed_data,
                                 after |-> compressed_data',
                                 table |-> lookup_table']
                /\ pc' = "loop"
                /\ UNCHANGED outcome
        /\ UNCHANGED <<raw_file_data, compressed_output, dec_outcome,
                       decompressed_data, life, stop, ref_output>>

\* Lines 149-180: one pass of the while loop.
Iterate ==
    /\ pc = "loop"
    /\ last_pair_frequency # 1
    /\ \/ AllocFails
       \/ \E r \in Octets : Substitute(r)

\* Line 149: the loop condition fails.
LoopExit ==
    /\ pc = "loop"
    /\ last_pair_frequency = 1
    /\ pc' = "return"
    /\ stop' = "frequency"
    /\ UNCHANGED <<lookup_table, raw_file_data, compressed_data, data_len,
                   last_pair_frequency, outcome, compressed_output, dec_outcome,
                   decompressed_data, life, alloc_log, freqs, last_iter, ref_output>>

\* Lines 182-189.
Return ==
    /\ pc = "return"
    /\ pc' = "idle"
    /\ IF CountFits(lookup_table)
       THEN /\ outcome' = "ok"
            /\ compressed_output' = Serialize(lookup_table, compressed_data)
       ELSE /\ outcome' = "OverflowError"
            /\ UNCHANGED compressed_output
    /\ UNCHANGED <<lookup_table, raw_file_data, compressed_data, data_len,
                   last_pair_frequency, dec_outcome, decompressed_data, life,
                   alloc_log, freqs, last_iter, stop, ref_output>>

\* Lines 191-215, applied to the artifact compress_binary returned.
DecompressBinary ==
    /\ pc = "idle"
    /\ outcome = "ok"
    /\ dec_outcome = "none"
    /\ LET r == Decompress(compressed_output)
       IN  /\ dec_outcome' = r.outcome
           /\ decompressed_data' = r.val
    /\ UNCHANGED <<lookup_table, raw_file_data, pc, compressed_data, data_len,
                   last_pair_frequency, outcome, compressed_output, life,
                   alloc_log, freqs, last_iter, stop, ref_output>>

Next ==
    \/ New
    \/ \E X \in Inputs : CompressBinary(X)
    \/ Iterate
    \/ LoopExit
    \/ Return
    \/ DecompressBinary

Spec == Init /\ [][Next]_vars

\* decompress_binary handed an arbitrary byte string.
InitDecode ==
    /\ lookup_table = <<>>
    /\ raw_file_data = <<>>
    /\ pc = "idle"
    /\ compressed_data = <<>>
    /\ data_len = 0
    /\ last_pair_frequency = 0
    /\ outcome = "ok"
    /\ compressed_output \in Artifacts
    /\ dec_outcome = "none"
    /\ decompressed_data = <<>>
    /\ life = "new"
    /\ alloc_log = <<>>
    /\ freqs = <<>>
    /\ last_iter = [before |-> <<>>, after |-> <<>>, table |-> <<>>]
    /\ stop = "none"
    /\ ref_output = <<>>

NextDecode == DecompressBinary

SpecDecode == InitDecode /\ [][NextDecode]_vars

\* ---------------------------------------------------------------- claims
\* A compress_binary call on the object has ended.
Finished == pc = "idle" /\ life # "new"

\* The loop of the current call was left by break.
Broke == stop \in {"exhausted", "recursion"}

\* Number of positions at which pair occurs in buf, overlaps counted.
Occurrences(pair, buf) ==
    Cardinality({i \in 1 .. Len(buf) - 1 : buf[i] = pair[1] /\ buf[i + 1] = pair[2]})

Distinct(raw) == Cardinality(Elems(raw))

\* C1: round trip.  Every compress_binary call whose table has at most
\* OctetSpace - 1 entries returns an artifact, and decompress_binary of that
\* artifact returns the input of the call, whatever codes were drawn.
C1_RoundTrip ==
    (Finished /\ Len(lookup_table) <= OctetSpace - 1) =>
        /\ outcome = "ok"
        /\ dec_outcome # "none" =>
               (dec_outcome = "ok" /\ decompressed_data = raw_file_data)

\* C2: degenerate input.  In a call on an input of length 0 or 1 no code is
\* allocated and no pair is selected; the call returns [0] ++ X with an empty
\* table, and decompress_binary of it returns X.
C2_Degenerate ==
    (life # "new" /\ Len(raw_file_data) <= 1) =>
        /\ alloc_log = <<>>
        /\ freqs = <<>>
        /\ pc = "idle" =>
               /\ outcome = "ok"
               /\ lookup_table = <<>>
               /\ compressed_output = <<0>> \o raw_file_data
        /\ dec_outcome # "none" =>
               (dec_outcome = "ok" /\ decompressed_data = raw_file_data)

\* C3: determinism and no cross-call state.  A call starts with an empty code
\* table, and when the same input is compressed twice in a row on the same
\* object, both times by smallest-unused allocation, the second artifact is
\* byte-identical to the first.
C3_Determinism ==
    /\ (pc = "loop" /\ alloc_log = <<>>) => lookup_table = <<>>
    /\ (Finished /\ outcome = "ok" /\ ref_output # <<>> /\ Ascending) =>
           compressed_output = ref_output

\* C4: allocator exclusion.  Every code __get_replacement returned in the
\* current call is absent from the call's input and was not a key of the table
\* when it was returned; no two returned codes are equal and no key occurs
\* twice in the table.
C4_AllocatorExclusion ==
    /\ \A i \in 1 .. Len(alloc_log) :
           /\ alloc_log[i].code \notin Elems(raw_file_data)
           /\ alloc_log[i].code \notin alloc_log[i].keys
           /\ \A j \in 1 .. i - 1 : alloc_log[j].code # alloc_log[i].code
    /\ Cardinality(Keys(lookup_table)) = Len(lookup_table)

\* A second code is allocated in one call.
C4_Witness ==
    /\ Len(alloc_log) >= 2
    /\ Len(lookup_table) >= 2
    /\ raw_file_data # <<>>

\* C5: early stop on exhaustion.  __get_replacement fails exactly when the
\* table holds OctetSpace minus the number of distinct input bytes entries;
\* the buffer and the table are then those of the end of the last completed
\* iteration, the call returns the artifact serialized from them without an
\* error, and for an input that uses every byte value that is [0] ++ X.
C5_Exhaustion ==
    /\ Broke => Len(lookup_table) = OctetSpace - Distinct(raw_file_data)
    /\ \A i \in 1 .. Len(alloc_log) :
           Cardinality(alloc_log[i].keys) # OctetSpace - Distinct(raw_file_data)
    /\ Broke => (compressed_data = last_iter.after /\ lookup_table = last_iter.table)
    /\ (Broke /\ pc = "idle") =>
           /\ outcome = "ok"
           /\ compressed_output = Serialize(last_iter.table, last_iter.after)
           /\ Elems(raw_file_data) = Octets =>
                  compressed_output = <<0>> \o raw_file_data

\* C6: truncated artifact.  decompress_binary of a byte string shorter than
\* 1 + 3 * entry_count, entry_count its first byte, ends in an error and
\* returns no byte sequence.
C6_Truncated ==
    (/\ compressed_output # <<>>
     /\ Len(compressed_output) < 1 + 3 * compressed_output[1]
     /\ dec_outcome # "none") => dec_outcome # "ok"

\* C7: boundedness.  A call makes at most OctetSpace - 1 loop iterations, the
\* table never holds more than OctetSpace - 1 entries, and the entry count
\* always fits the one-byte count field.
C7_Bounded ==
    /\ Len(freqs) <= OctetSpace - 1
    /\ Len(lookup_table) <= OctetSpace - 1
    /\ outcome # "OverflowError"

\* C8: terminal substitution.  When the loop ends because last_pair_frequency
\* is 1, the last table entry maps the last allocated code to a pair that
\* occurred exactly once in the buffer at the start of the final iteration,
\* the buffer is that buffer with the occurrence replaced by the code, and
\* every earlier iteration of the call selected a pair counted at least twice.
C8_TerminalSubstitution ==
    stop = "frequency" =>
        LET n == Len(freqs)
            e == lookup_table[Len(lookup_table)]
            before == last_iter.before
        IN  /\ n >= 1
            /\ Len(alloc_log) = n
            /\ freqs[n] = 1
            /\ \A i \in 1 .. n - 1 : freqs[i] >= 2
            /\ e[1] = alloc_log[n].code
            /\ Occurrences(e[2], before) = 1
            /\ \E i \in 1 .. Len(before) - 1 :
                   /\ <<before[i], before[i + 1]>> = e[2]
                   /\ compressed_data = SubSeq(before, 1, i - 1) \o <<e[1]>>
                                            \o SubSeq(before, i + 2, Len(before))

\* A call ended by frequency 1 after an earlier iteration on a repeated pair.
C8_Witness ==
    /\ stop = "frequency"
    /\ Len(freqs) >= 2
    /\ freqs[1] >= 2

\* C9: structural acyclicity.  In every state each key differs from both of
\* its components, each component is an input byte that is no key or a key
\* inserted earlier, and decompress_binary of an artifact compress_binary
\* returned never exceeds the recursion limit.
C9_Acyclic ==
    /\ \A i \in 1 .. Len(lookup_table) :
           LET k == lookup_table[i][1]
               p == lookup_table[i][2]
           IN  /\ k # p[1]
               /\ k # p[2]
               /\ \A c \in {p[1], p[2]} :
                      \/ c \in Elems(raw_file_data) /\ c \notin Keys(lookup_table)
                      \/ \E j \in 1 .. i - 1 : lookup_table[j][1] = c
    /\ dec_outcome # "RecursionError"

\* C10: pair selection is defined.  In a call on an input of length at least
\* 2 the buffer holds at least 2 bytes whenever a pair is about to be
\* selected, every completed iteration made the buffer strictly shorter, and
\* the call ends by returning an artifact.
C10_Selection ==
    (life # "new" /\ Len(raw_file_data) >= 2) =>
        /\ (pc = "loop" /\ last_pair_frequency # 1) =>
               (Len(compressed_data) >= 2 /\ data_len = Len(compressed_data))
        /\ freqs # <<>> => Len(last_iter.after) < Len(last_iter.before)
        /\ pc = "idle" => outcome = "ok"

\* ------------------------------------------------------ scope of failures
\* The object is serving its first call since construction: the table the
\* call started with was empty.
FirstCall == life = "first"

\* On a first call with an input of at least 2 bytes the round trip holds.
FirstCallRoundTrip == (FirstCall /\ Len(raw_file_data) >= 2) => C1_RoundTrip

\* On a first call whose draws do not overflow, the early stop is as C5 states.
FirstCallExhaustion == (FirstCall /\ stop # "recursion") => C5_Exhaustion

\* On a first call the table stays within OctetSpace - 1 entries.
FirstCallBounded == FirstCall => C7_Bounded

\* On a first call the table is structurally acyclic.
FirstCallAcyclic == FirstCall => C9_Acyclic

\* On a first call an input of at least 2 bytes always yields an artifact.
FirstCallSelection == FirstCall => C10_Selection

\* On any call pair selection never fails for an input of at least 2 bytes.
SelectionDefined == (life # "new" /\ Len(raw_file_data) >= 2) => outcome # "UnboundLocalError"

=============================================================================
